---- MODULE Spec2Model ----
(***************************************************************************)
(* Model of corr's katcp_serial.SerialClient (src/src/katcp_serial.py):    *)
(* the table of non-blocking requests (_nb_requests), the request          *)
(* correlator (_nb_request, _nb_replycb, _nb_informcb) and the blocking    *)
(* request facade (_request) with the device operations built on it.      *)
(*                                                                         *)
(* The class takes no lock anywhere.  Caller threads and the katcp         *)
(* client's own dispatch thread interleave between the statements below,  *)
(* so every read or write of shared state is a step of its own: the        *)
(* labels Lnn name the source line a thread is about to execute.           *)
(***************************************************************************)
EXTENDS Integers, Sequences, FiniteSets, TLC

\* ------------------------------------------------------------------ bounds
\* Capacity of the table, self._nb_max_requests (an instance attribute the
\* source initialises to 10); scaled down to keep the state space small.
nb_max_requests == 2
\* The number of _nb_request calls the single caller of Spec makes.
MaxSubmits == 4
\* The number of _nb_request calls each of the two callers of SpecMT makes.
MaxSubmitsMT == 2
\* Cap on the clock read by time.time().
MaxTime == 1
\* Cap on the informs delivered to one entry.
MaxInforms == 1
\* Cap on the requests recorded on the wire of the blocking facade.
MaxWire == 2
\* The binary digits of a pin number that the prior pin levels are drawn from.
PriorBits == 5

\* ------------------------------------------------------------------ state
VARIABLES
    nb_request_id,  \* self._nb_request_id
    nb_requests,    \* self._nb_requests: id string -> FpgaAsyncRequest
    clock,          \* the value time.time() returns
    pc,             \* caller thread -> label of the statement it is at
    loc,            \* caller thread -> locals of its _nb_request call
    ret,            \* caller thread -> outcome of its last finished call
    inflight,       \* ids the katcp client holds callbacks for (awaiting reply)
    disp,           \* the dispatch thread: its position and current delivery
    todo,           \* caller thread -> _nb_request calls it has still to make
    returned,       \* history: ids of the handles _nb_request returned, in order
    wire,           \* blocking facade: requests passed to blocking_request
    last,           \* blocking facade: the last _request call and its outcome
    pins,           \* the device: digital pin -> level
    prior,          \* history: the pin levels before the device operation
    call,           \* the device operation called: arguments, progress, outcome
    shift           \* the device: data levels sampled at rising clock edges

nbvars == <<nb_request_id, nb_requests, clock, pc, loc, ret, inflight, disp,
            todo, returned>>
devvars == <<wire, last, pins, prior, call, shift>>
vars == <<nb_request_id, nb_requests, clock, pc, loc, ret, inflight, disp,
          todo, returned, wire, last, pins, prior, call, shift>>

Threads == DOMAIN pc

\* ------------------------------------------------------------------ values
\* Python's None for an id, and Option values as sequences of length <= 1.
NoId == <<>>
None == <<>>
Some(x) == <<x>>

\* str(n) for n >= 0: the decimal digits, most significant first.
RECURSIVE Str(_)
Str(n) == IF n < 10 THEN <<n>> ELSE Str(n \div 10) \o <<n % 10>>

\* katcp calls reply_cb(msg, *user_data): a string user_data arrives as one
\* argument per character.
Unpack(s) == [i \in 1..Len(s) |-> <<s[i]>>]

\* ''.join(userdata)
RECURSIVE Join(_)
Join(parts) == IF Len(parts) = 0 THEN <<>>
               ELSE Head(parts) \o Join(Tail(parts))

RequestNames == {"status"}
ReplyStatus == {"ok", "fail"}

\* Message.copy(): a message with the same name and arguments.
Copy(msg) == [name |-> msg.name, arguments |-> msg.arguments]

\* FpgaAsyncRequest(host, request_name, request_id, inform_cb, reply_cb):
\* time_tx is the time of construction, no reply yet, no informs.
FpgaAsyncRequest(request_name, request_id, now) ==
    [request |-> request_name, request_id |-> request_id, time_tx |-> now,
     reply |-> None, informs |-> <<>>]

\* FpgaAsyncRequest.got_reply / got_inform
got_reply(req, msg) == [req EXCEPT !.reply = Some(msg)]
got_inform(req, msg) == [req EXCEPT !.informs = Append(@, msg)]

NoLoc == [request |-> "", sel |-> NoId, ord |-> <<>>, oldreq |-> None,
          tmp |-> 0, rid |-> NoId]
NoRet == [op |-> "", kind |-> "", val |-> <<>>]
IdleDisp == [pc |-> "idle", id |-> NoId, kind |-> "", msg |-> None, err |-> ""]

\* The outcome of a finished call: what it returned, or the exception raised.
Returned(op, val) == [op |-> op, kind |-> "ok", val |-> val]
Raised(op, exc) == [op |-> op, kind |-> exc, val |-> <<>>]

\* ------------------------------------------------------------------ the table
Keys(tbl) == DOMAIN tbl

\* del d[k]
Remove(tbl, k) == [x \in DOMAIN tbl \ {k} |-> tbl[x]]

\* d[k] = v
Put(tbl, k, v) == [x \in DOMAIN tbl \cup {k} |-> IF x = k THEN v ELSE tbl[x]]

\* What a caller keeps of a looked-up entry: its identity.
Handle(got) == IF got = None THEN None ELSE Some(got[1].request_id)

\* _nb_get_request_by_id: the entry, or None on KeyError.
nb_get_request_by_id(tbl, request_id) ==
    IF request_id \in DOMAIN tbl THEN Some(tbl[request_id]) ELSE None

\* _nb_pop_request_by_id: the table after dict.pop (unchanged on KeyError);
\* the value it returns is nb_get_request_by_id of the table before.
nb_pop_request_by_id(tbl, request_id) ==
    IF request_id \in DOMAIN tbl THEN Remove(tbl, request_id) ELSE tbl

\* The orders in which a dict with key set S may be iterated: the order of a
\* Python 2 dict is an accident of hashing and history, so any of them.
Orders(S) ==
    {f \in [1..Cardinality(S) -> S] :
        \A i, j \in 1..Cardinality(S) : i # j => f[i] # f[j]}

\* Mutant of ScanOldest: "<=" for "<", so that a later entry of the same
\* time_tx replaces req.
RECURSIVE ScanOldestLast(_, _, _, _)
ScanOldestLast(tbl, ord, i, req) ==
    IF i > Len(ord) THEN req
    ELSE ScanOldestLast(tbl, ord, i + 1,
                        IF tbl[ord[i]].time_tx <= tbl[req].time_tx
                        THEN ord[i] ELSE req)

\* The loop of _nb_pop_oldest_request over the items in the order ord:
\* req is replaced only by an entry whose time_tx is strictly smaller.
RECURSIVE ScanOldest(_, _, _, _)
ScanOldest(tbl, ord, i, req) ==
    IF i > Len(ord) THEN req
    ELSE ScanOldest(tbl, ord, i + 1,
                    IF tbl[ord[i]].time_tx < tbl[req].time_tx THEN ord[i] ELSE req)

\* Mutant of nb_pop_oldest_select: the loop is left out and keys()[0] is
\* popped.
nb_pop_oldest_select_first(tbl, ord) == ord[1]

\* The id _nb_pop_oldest_request selects: req starts as the entry of keys()[0].
nb_pop_oldest_select(tbl, ord) == ScanOldest(tbl, ord, 1, ord[1])

\* Mutant of NextRequestId: the counter wraps around.
NextRequestIdWrap(n) == (n % 2) + 1

\* _nb_get_next_request_id: the new value of the counter.
NextRequestId(n) == n + 1

\* ------------------------------------------------------------------ callers
\* _nb_request, line 110: the capacity test.
nb_request_L110(t, request) ==
    /\ pc[t] = "idle"
    /\ todo[t] > 0
    /\ todo' = [todo EXCEPT ![t] = @ - 1]
    /\ pc' = [pc EXCEPT ![t] =
                IF Cardinality(Keys(nb_requests)) = nb_max_requests
                THEN "L67" ELSE "L83r"]
    /\ loc' = [loc EXCEPT ![t] = [NoLoc EXCEPT !.request = request]]
    /\ UNCHANGED <<nb_request_id, nb_requests, clock, ret, inflight, disp,
                   returned, devvars>>

\* _nb_pop_oldest_request, lines 67-70: keys()[0] (IndexError on an empty
\* dict) and the scan for the smallest time_tx.
nb_pop_oldest_L67(t) ==
    /\ pc[t] = "L67"
    /\ IF Keys(nb_requests) = {}
       THEN /\ pc' = [pc EXCEPT ![t] = "idle"]
            /\ loc' = [loc EXCEPT ![t] = NoLoc]
            /\ ret' = [ret EXCEPT ![t] = Raised("nb_request", "IndexError")]
       ELSE \E ord \in Orders(Keys(nb_requests)) :
            /\ pc' = [pc EXCEPT ![t] = "L71"]
            /\ loc' = [loc EXCEPT ![t].ord = ord,
                                  ![t].sel = nb_pop_oldest_select(nb_requests, ord)]
            /\ ret' = ret
    /\ UNCHANGED <<nb_request_id, nb_requests, clock, inflight, disp, todo,
                   returned, devvars>>

\* _nb_pop_oldest_request, line 71, and the log lines 112-113: the pop by id
\* of the selected entry; when it is gone, oldreq is None and oldreq.request
\* raises AttributeError.
nb_pop_oldest_L71(t) ==
    /\ pc[t] = "L71"
    /\ LET sel == loc[t].sel
           got == nb_get_request_by_id(nb_requests, sel)
       IN  /\ nb_requests' = nb_pop_request_by_id(nb_requests, sel)
           /\ IF got = None
              THEN /\ pc' = [pc EXCEPT ![t] = "idle"]
                   /\ loc' = [loc EXCEPT ![t] = NoLoc]
                   /\ ret' = [ret EXCEPT ![t] =
                                Raised("nb_request", "AttributeError")]
              ELSE /\ pc' = [pc EXCEPT ![t] = "L83r"]
                   /\ loc' = [loc EXCEPT ![t].oldreq = got, ![t].ord = <<>>]
                   /\ ret' = ret
    /\ UNCHANGED <<nb_request_id, clock, inflight, disp, todo, returned,
                   devvars>>

\* _nb_get_next_request_id, line 83: the read of self._nb_request_id.
nb_get_next_request_id_L83r(t) ==
    /\ pc[t] = "L83r"
    /\ pc' = [pc EXCEPT ![t] = "L83w"]
    /\ loc' = [loc EXCEPT ![t].tmp = nb_request_id]
    /\ UNCHANGED <<nb_request_id, nb_requests, clock, ret, inflight, disp,
                   todo, returned, devvars>>

\* _nb_get_next_request_id, lines 83-84: the write of the incremented value
\* and the str() of the attribute.
nb_get_next_request_id_L83w(t) ==
    /\ pc[t] = "L83w"
    /\ nb_request_id' = NextRequestId(loc[t].tmp)
    /\ pc' = [pc EXCEPT ![t] = "L115"]
    /\ loc' = [loc EXCEPT ![t].rid = Str(nb_request_id'), ![t].tmp = 0]
    /\ UNCHANGED <<nb_requests, clock, ret, inflight, disp, todo, returned,
                   devvars>>

\* _nb_request, line 115: self.request(...) hands the message and the two
\* callbacks to the katcp client, or raises (the client is not connected).
nb_request_L115(t) ==
    /\ pc[t] = "L115"
    /\ \/ /\ inflight' = inflight \cup {loc[t].rid}
          /\ pc' = [pc EXCEPT ![t] = "L78"]
          /\ UNCHANGED <<loc, ret>>
       \/ /\ pc' = [pc EXCEPT ![t] = "idle"]
          /\ loc' = [loc EXCEPT ![t] = NoLoc]
          /\ ret' = [ret EXCEPT ![t] =
                       Raised("nb_request", "SendError")]
          /\ UNCHANGED inflight
    /\ UNCHANGED <<nb_request_id, nb_requests, clock, disp, todo, returned,
                   devvars>>

\* _nb_add_request, lines 78-79: the has_key test.
nb_add_request_L78(t) ==
    /\ pc[t] = "L78"
    /\ IF loc[t].rid \in Keys(nb_requests)
       THEN /\ pc' = [pc EXCEPT ![t] = "idle"]
            /\ loc' = [loc EXCEPT ![t] = NoLoc]
            /\ ret' = [ret EXCEPT ![t] =
                         Raised("nb_request", "DuplicateRequest")]
       ELSE /\ pc' = [pc EXCEPT ![t] = "L80"]
            /\ UNCHANGED <<loc, ret>>
    /\ UNCHANGED <<nb_request_id, nb_requests, clock, inflight, disp, todo,
                   returned, devvars>>

\* _nb_add_request, line 80, and the return of line 117.
nb_add_request_L80(t) ==
    /\ pc[t] = "L80"
    /\ nb_requests' = Put(nb_requests, loc[t].rid,
                          FpgaAsyncRequest(loc[t].request, loc[t].rid, clock))
    /\ pc' = [pc EXCEPT ![t] = "idle"]
    /\ loc' = [loc EXCEPT ![t] = NoLoc]
    /\ ret' = [ret EXCEPT ![t] = Returned("nb_request", Some(loc[t].rid))]
    /\ returned' = Append(returned, loc[t].rid)
    /\ UNCHANGED <<nb_request_id, clock, inflight, disp, todo, devvars>>

\* The ids a caller can name: those generated so far.
KnownIds == {Str(n) : n \in 1..nb_request_id}

\* A call of _nb_pop_request_by_id by an idle caller.
pop_request_by_id(t, request_id) ==
    /\ pc[t] = "idle"
    /\ nb_requests' = nb_pop_request_by_id(nb_requests, request_id)
    /\ ret' = [ret EXCEPT ![t] =
                 Returned("pop_request_by_id",
                          Handle(nb_get_request_by_id(nb_requests, request_id)))]
    /\ UNCHANGED <<nb_request_id, clock, pc, loc, inflight, disp, todo,
                   returned, devvars>>

\* A call of _nb_get_request_by_id by an idle caller.
get_request_by_id(t, request_id) ==
    /\ pc[t] = "idle"
    /\ ret' = [ret EXCEPT ![t] =
                 Returned("get_request_by_id",
                          Handle(nb_get_request_by_id(nb_requests, request_id)))]
    /\ UNCHANGED <<nb_request_id, nb_requests, clock, pc, loc, inflight,
                   disp, todo, returned, devvars>>

\* What _nb_get_request_result does with the result of the lookup: req.reply
\* of None raises AttributeError, else the pair (reply, informs).
nb_get_request_result(req) ==
    IF req = None
    THEN Raised("get_request_result", "AttributeError")
    ELSE Returned("get_request_result", <<req[1].reply, req[1].informs>>)

\* A call of _nb_get_request_result by an idle caller.
get_request_result(t, request_id) ==
    /\ pc[t] = "idle"
    /\ ret' = [ret EXCEPT ![t] =
                 nb_get_request_result(
                     nb_get_request_by_id(nb_requests, request_id))]
    /\ UNCHANGED <<nb_request_id, nb_requests, clock, pc, loc, inflight,
                   disp, todo, returned, devvars>>

\* ------------------------------------------------------------------ dispatch
\* Mutant of cb_check: the has_key test is left out.
cb_check_untested(tbl, kind, userdata, msg) ==
    [pc |-> IF kind = "reply" THEN "L92" ELSE "L100",
     id |-> Join(userdata), kind |-> kind, msg |-> Some(msg), err |-> ""]

\* The has_key test of _nb_replycb (line 90) and _nb_informcb (line 98) on
\* the joined user data: the next position of the dispatch thread.
cb_check(tbl, kind, userdata, msg) ==
    LET request_id == Join(userdata)
    IN  IF request_id \in Keys(tbl)
        THEN [pc |-> IF kind = "reply" THEN "L92" ELSE "L100",
              id |-> request_id, kind |-> kind, msg |-> Some(msg), err |-> ""]
        ELSE [IdleDisp EXCEPT !.err = "RuntimeError"]

\* Mutant of cb_deliver: the entry is dropped once its reply has come.
cb_deliver_expire(tbl, d) ==
    IF d.kind = "reply"
    THEN Remove(tbl, d.id)
    ELSE [tbl EXCEPT ![d.id] = got_inform(@, Copy(d.msg[1]))]

\* The table after line 92 or line 100: the entry of d.id gets a copy of the
\* message.
cb_deliver(tbl, d) ==
    [tbl EXCEPT ![d.id] = IF d.kind = "reply"
                          THEN got_reply(@, Copy(d.msg[1]))
                          ELSE got_inform(@, Copy(d.msg[1]))]

\* The reply to an outstanding request reaches _nb_replycb, lines 89-91; the
\* katcp client forgets the request's callbacks.
nb_replycb_L90(request_id, name, status) ==
    /\ disp.pc = "idle"
    /\ request_id \in inflight
    /\ inflight' = inflight \ {request_id}
    /\ disp' = cb_check(nb_requests, "reply", Unpack(request_id),
                        [name |-> name, arguments |-> <<status>>])
    /\ UNCHANGED <<nb_request_id, nb_requests, clock, pc, loc, ret, todo,
                   returned, devvars>>

\* An inform of an outstanding request reaches _nb_informcb, lines 97-99.
nb_informcb_L98(request_id, name) ==
    /\ disp.pc = "idle"
    /\ request_id \in inflight
    /\ request_id \in Keys(nb_requests)
         => Len(nb_requests[request_id].informs) < MaxInforms
    /\ disp' = cb_check(nb_requests, "inform", Unpack(request_id),
                        [name |-> name, arguments |-> <<>>])
    /\ UNCHANGED <<nb_request_id, nb_requests, clock, pc, loc, ret, inflight,
                   todo, returned, devvars>>

\* _nb_replycb line 92 and _nb_informcb line 100: the second lookup (KeyError
\* when the entry has gone meanwhile) and got_reply / got_inform.
nb_cb_L92(kind) ==
    /\ disp.pc = IF kind = "reply" THEN "L92" ELSE "L100"
    /\ IF disp.id \in Keys(nb_requests)
       THEN /\ nb_requests' = cb_deliver(nb_requests, disp)
            /\ disp' = IdleDisp
       ELSE /\ nb_requests' = nb_requests
            /\ disp' = [IdleDisp EXCEPT !.err = "KeyError"]
    /\ UNCHANGED <<nb_request_id, clock, pc, loc, ret, inflight, todo,
                   returned, devvars>>

\* Time passes.
Tick ==
    /\ clock < MaxTime
    /\ clock' = clock + 1
    /\ UNCHANGED <<nb_request_id, nb_requests, pc, loc, ret, inflight, disp,
                   todo, returned, devvars>>

\* ------------------------------------------------------------------ facade
\* katcp's Message.OK
OK == "ok"
FacadeNames == {"watchdog", "setd", "getd"}
FacadeStatus == {"ok", "fail", "invalid"}
FacadeValues == {"0", "1"}

\* Mutant of request_outcome: only the status "fail" counts as a failure.
request_outcome_fail_only(request, reply, informs) ==
    IF reply.arguments[1] = "fail"
    THEN [kind |-> "RuntimeError", name |-> request.name, val |-> <<>>]
    ELSE [kind |-> "ok", name |-> "", val |-> <<reply, informs>>]

\* What _request does with the reply of blocking_request (lines 136-142).
request_outcome(request, reply, informs) ==
    IF reply.arguments[1] # OK
    THEN [kind |-> "RuntimeError", name |-> request.name, val |-> <<>>]
    ELSE [kind |-> "ok", name |-> "", val |-> <<reply, informs>>]

\* _request(name, *args): one blocking round trip.  The device answers with
\* a reply named after the request whose first argument is a status, or
\* blocking_request raises on a timeout.
request(name, args) ==
    /\ call.state = "none"
    /\ Len(wire) < MaxWire
    /\ LET req == [name |-> name, arguments |-> args]
       IN  /\ wire' = Append(wire, req)
           /\ \/ \E status \in FacadeStatus, v \in FacadeValues, n \in 0..1 :
                    LET reply == [name |-> name, arguments |-> <<status, v>>]
                        informs == [i \in 1..n |-> [name |-> name, arguments |-> <<>>]]
                    IN  last' = [request |-> req, reply |-> Some(reply),
                                 informs |-> informs,
                                 out |-> request_outcome(req, reply, informs)]
              \/ last' = [request |-> req, reply |-> None, informs |-> <<>>,
                          out |-> [kind |-> "Timeout", name |-> "", val |-> <<>>]]
    /\ UNCHANGED <<pins, prior, call, shift>>
    /\ UNCHANGED nbvars

\* ----------------------------------------------------- device operations
\* Python values handed to setd as a state: an int, or a bool, which is an
\* int subclass with True == 1 and False == 0.
PyInt(n) == [t |-> "int", v |-> n]
PyBool(b) == [t |-> "bool", v |-> IF b THEN 1 ELSE 0]

\* x in [a, b, ...]: list membership compares with ==.
PyIn(x, list) == \E i \in DOMAIN list : list[i].v = x.v

\* int(x).
int(x) == x.v

\* range(a, b) as a set.
range(a, b) == {n \in Int : a <= n /\ n < b}

\* (v >> bit) & 1.
ShiftAnd1(v, bit) == (v \div (2 ^ bit)) % 2

\* The pin tables of the two boards.
kat_pins ==
    [switch1_pin1 |-> 13, switch1_pin2 |-> 12, switch1_pin3 |-> 19,
     switch1_pin4 |-> 18, switch2_pin1 |-> 17, switch2_pin2 |-> 16,
     switch2_pin3 |-> 15, switch2_pin4 |-> 14, atten1_le_pin |-> 5,
     atten2_le_pin |-> 6, atten3_le_pin |-> 7, atten_clk_pin |-> 3,
     atten_data_pin |-> 4]

misc_pins ==
    [switch1_pin1 |-> 3, switch1_pin2 |-> 4, switch1_pin3 |-> 5,
     switch1_pin4 |-> 6, switch2_pin1 |-> 7, switch2_pin2 |-> 8,
     switch2_pin3 |-> 9, switch2_pin4 |-> 10, switch3 |-> 11,
     atten_le_pin |-> 16, atten_clk_pin |-> 15, atten_data_pin |-> 17]

\* The pins the tables name.
Values(f) == {f[k] : k \in DOMAIN f}
AllPins == Values(kat_pins) \cup Values(misc_pins)

\* seta: val_pins.
val_pins == {3, 5, 6, 9, 10, 11}

\* One self.setd(pin, state) statement of an operation.
W(pin, state) == [pin |-> pin, state |-> PyInt(state)]

\* for bit in range(bit, stop, -1): setd(data, (db>>bit)&1); setd(clk, 1);
\* setd(clk, 0).
RECURSIVE BitLoop(_, _, _, _, _)
BitLoop(clk, data, db, bit, stop) ==
    IF bit <= stop THEN <<>>
    ELSE <<W(data, ShiftAnd1(db, bit)), W(clk, 1), W(clk, 0)>>
         \o BitLoop(clk, data, db, bit - 1, stop)

\* set_atten_db: the setd statements in program order.
AttenLatchAll(atten) ==
    <<W(kat_pins.atten1_le_pin, 1), W(kat_pins.atten2_le_pin, 1),
      W(kat_pins.atten3_le_pin, 1)>>

AttenLatch(atten) ==
    IF atten = 1 THEN <<W(kat_pins.atten1_le_pin, 1)>>
    ELSE IF atten = 2 THEN <<W(kat_pins.atten2_le_pin, 1)>>
    ELSE IF atten = 3 THEN <<W(kat_pins.atten3_le_pin, 1)>>
    ELSE IF atten = 0 THEN <<W(kat_pins.atten1_le_pin, 1),
                             W(kat_pins.atten2_le_pin, 1),
                             W(kat_pins.atten3_le_pin, 1)>>
    ELSE <<>>

AttenShiftUndoubled(db) ==
    BitLoop(kat_pins.atten_clk_pin, kat_pins.atten_data_pin, db, 5, -1)

AttenShift(db) ==
    BitLoop(kat_pins.atten_clk_pin, kat_pins.atten_data_pin, db * 2, 5, -1)

set_atten_db_body(atten, db) ==
    <<W(kat_pins.atten1_le_pin, 0), W(kat_pins.atten2_le_pin, 0),
      W(kat_pins.atten3_le_pin, 0), W(kat_pins.atten_clk_pin, 0)>>
    \o AttenShift(db) \o AttenLatch(atten)

\* stellies_set_atten_db.
stellies_set_atten_db_body(db) ==
    <<W(misc_pins.atten_le_pin, 0), W(misc_pins.atten_clk_pin, 0)>>
    \o BitLoop(misc_pins.atten_clk_pin, misc_pins.atten_data_pin, db * 2, 5, -1)
    \o <<W(misc_pins.atten_le_pin, 1)>>

\* set_freq_range_switch.
AllHigh(p) ==
    <<W(p.switch1_pin1, 1), W(p.switch1_pin2, 1), W(p.switch1_pin3, 1),
      W(p.switch1_pin4, 1), W(p.switch2_pin1, 1), W(p.switch2_pin2, 1),
      W(p.switch2_pin3, 1), W(p.switch2_pin4, 1)>>

KatRangeSame(freq_range) ==
    <<W(kat_pins.switch1_pin4, 0), W(kat_pins.switch2_pin1, 0)>>

KatRange(freq_range) ==
    IF freq_range = 1
    THEN <<W(kat_pins.switch1_pin4, 0), W(kat_pins.switch2_pin1, 0)>>
    ELSE IF freq_range = 2
    THEN <<W(kat_pins.switch1_pin2, 0), W(kat_pins.switch2_pin3, 0)>>
    ELSE IF freq_range = 3
    THEN <<W(kat_pins.switch1_pin3, 0), W(kat_pins.switch2_pin2, 0)>>
    ELSE IF freq_range = 4
    THEN <<W(kat_pins.switch1_pin1, 0), W(kat_pins.switch2_pin4, 0)>>
    ELSE <<>>

set_freq_range_switch_body(freq_range) ==
    AllHigh(kat_pins) \o KatRange(freq_range)

\* stellies_set_freq_range_switch.
StelliesRange(freq_range) ==
    IF freq_range = 1
    THEN <<W(misc_pins.switch1_pin3, 0), W(misc_pins.switch2_pin2, 0),
           W(misc_pins.switch3, 1)>>
    ELSE IF freq_range = 2
    THEN <<W(misc_pins.switch1_pin2, 0), W(misc_pins.switch2_pin4, 0),
           W(misc_pins.switch3, 0)>>
    ELSE IF freq_range = 3
    THEN <<W(misc_pins.switch1_pin1, 0), W(misc_pins.switch2_pin3, 0),
           W(misc_pins.switch3, 0)>>
    ELSE IF freq_range = 4
    THEN <<W(misc_pins.switch1_pin1, 0), W(misc_pins.switch2_pin4, 0)>>
    ELSE <<>>

stellies_set_freq_range_switch_body(freq_range) ==
    AllHigh(misc_pins) \o StelliesRange(freq_range)

\* What a device operation hands back: a value, or the exception it raises.
PyNone == [t |-> "None", v |-> 0]
Exc(kind) == [t |-> kind, v |-> 0]

NoCall == [op |-> "", args |-> <<>>, body |-> <<>>, pc |-> 0,
           state |-> "none", val |-> PyNone]
Called(op, args, body) == [op |-> op, args |-> args, body |-> body, pc |-> 0,
                           state |-> "running", val |-> PyNone]
Return(c, val) == [c EXCEPT !.state = "returned", !.val = val]
Raise(c, kind) == [c EXCEPT !.state = "raised", !.val = Exc(kind)]

\* The answers of the device to one request: a reply whose first argument is
\* a status, followed by a value for the reading requests; or none in time.
Readings == {"geta", "getd"}
Replies(name) ==
    {None} \cup
    {Some([name |-> name, arguments |-> a]) :
        a \in IF name \in Readings
              THEN {<<st, v>> : st \in FacadeStatus, v \in FacadeValues}
              ELSE {<<st>> : st \in FacadeStatus}}

\* self._request(name, *args) inside an operation, answered with rp.
round_trip(req, rp) ==
    [request |-> req, reply |-> rp, informs |-> <<>>,
     out |-> IF rp = None
             THEN [kind |-> "Timeout", name |-> "", val |-> <<>>]
             ELSE request_outcome(req, rp[1], <<>>)]

\* int() of the text of a reply argument.
int_text(s) == IF s = "0" THEN 0 ELSE 1

\* A fresh client: nothing called, nothing sent.
Fresh == call.state = "none" /\ wire = <<>>

\* The start of an operation: its assert statements, then its body.
Begin(op, args, asserts, body) ==
    /\ call' = IF asserts THEN Called(op, args, body)
               ELSE Raise(Called(op, args, <<>>), "AssertionError")
    /\ UNCHANGED <<wire, last, pins, prior, shift>>
    /\ UNCHANGED nbvars

\* setd: the state test of line 155.
setd_valid_any(state) == TRUE

setd_valid(state) ==
    \/ PyIn(state, <<PyInt(0), PyInt(1)>>)
    \/ PyIn(state, <<PyBool(TRUE), PyBool(FALSE)>>)

\* The board a running operation drives: the clock and data pins of its
\* attenuator's shift register.
AttenOps == {"set_atten_db", "stellies_set_atten_db"}
ClkPin(op) == IF op = "set_atten_db" THEN kat_pins.atten_clk_pin
              ELSE misc_pins.atten_clk_pin
DataPin(op) == IF op = "set_atten_db" THEN kat_pins.atten_data_pin
               ELSE misc_pins.atten_data_pin

\* The device executing "setd pin level": the pin takes the level, and a
\* rising clock edge shifts the level of the data pin in.
device_setd(op, pin, level) ==
    /\ pins' = [pins EXCEPT ![pin] = level]
    /\ shift' = IF /\ op \in AttenOps
                   /\ pin = ClkPin(op) /\ pins[pin] = 0 /\ level = 1
                THEN Append(shift, pins[DataPin(op)])
                ELSE shift

\* The next self.setd(pin, state) statement of the running operation.
setd_L155 ==
    /\ call.state = "running"
    /\ call.pc < Len(call.body)
    /\ LET w == call.body[call.pc + 1]
           done == [call EXCEPT !.pc = call.pc + 1]
       IN  IF ~setd_valid(w.state)
           THEN /\ call' = Raise(call, "RuntimeError")
                /\ UNCHANGED <<wire, last, pins, shift>>
           ELSE \E rp \in Replies("setd") :
                   LET req == [name |-> "setd",
                               arguments |-> <<w.pin, int(w.state)>>]
                       rt == round_trip(req, rp)
                   IN  /\ wire' = Append(wire, req)
                       /\ last' = rt
                       /\ IF rt.out.kind = "ok"
                          THEN /\ device_setd(call.op, w.pin, int(w.state))
                               /\ call' = IF done.pc = Len(done.body)
                                          THEN Return(done, PyNone)
                                          ELSE done
                          ELSE /\ call' = Raise(call, rt.out.kind)
                               /\ UNCHANGED <<pins, shift>>
    /\ UNCHANGED prior
    /\ UNCHANGED nbvars

\* ping: reply, informs = self._request("watchdog"); True when the reply's
\* first argument is 'ok', else False.
ping_result(res) ==
    LET reply == res[1]
    IN  IF reply.arguments[1] = "ok" THEN PyBool(TRUE) ELSE PyBool(FALSE)

\* seta: reply = self._request(...), nothing returned.
seta_result(res) == PyNone

\* _request returns the tuple (reply, informs); geta and getd take
\* .arguments of what it returns, which only a Message has.
PyTuple(items) == [t |-> "tuple", items |-> items]
reading_result(res) ==
    LET r == PyTuple(res)
    IN  IF r.t # "Message" THEN Exc("AttributeError")
        ELSE PyInt(int_text(r.arguments[2]))

\* What an operation makes of the value res that its _request call returned.
result(op, res) ==
    IF op = "ping" THEN ping_result(res)
    ELSE IF op = "seta" THEN seta_result(res)
    ELSE reading_result(res)

\* An operation that makes one request and works on what _request returns.
OneRequest(op, args, name, reqargs) ==
    /\ \E rp \in Replies(name) :
          LET req == [name |-> name, arguments |-> reqargs]
              rt == round_trip(req, rp)
              c == Called(op, args, <<>>)
          IN  /\ wire' = <<req>>
              /\ last' = rt
              /\ call' = IF rt.out.kind = "ok"
                         THEN LET r == result(op, rt.out.val)
                              IN  IF r.t \in {"AttributeError"}
                                  THEN Raise(c, r.t) ELSE Return(c, r)
                         ELSE Raise(c, rt.out.kind)
    /\ UNCHANGED <<pins, prior, shift>>
    /\ UNCHANGED nbvars

\* ping().
ping ==
    /\ Fresh
    /\ OneRequest("ping", <<>>, "watchdog", <<>>)

\* setd(pin, state).
setd(pin, state) ==
    /\ Fresh
    /\ Begin("setd", <<pin, state>>, TRUE, <<[pin |-> pin, state |-> state]>>)

\* seta(pin, val): the two asserts, then one request.
seta_asserts(pin, val) == val \in range(0, 255) /\ pin \in val_pins

seta(pin, val) ==
    /\ Fresh
    /\ IF seta_asserts(pin, val)
       THEN OneRequest("seta", <<pin, val>>, "seta", <<pin, val>>)
       ELSE Begin("seta", <<pin, val>>, FALSE, <<>>)

\* geta(pin, smoothing).
geta_asserts(pin, smoothing) == smoothing \in range(1, 65) /\ pin \in range(0, 8)

geta(pin, smoothing) ==
    /\ Fresh
    /\ IF geta_asserts(pin, smoothing)
       THEN OneRequest("geta", <<pin, smoothing>>, "geta", <<pin, smoothing>>)
       ELSE Begin("geta", <<pin, smoothing>>, FALSE, <<>>)

\* getd(pin).
getd(pin) ==
    /\ Fresh
    /\ OneRequest("getd", <<pin>>, "getd", <<pin>>)

\* set_atten_db(atten, db).
set_atten_db_asserts(atten, db) == db \in range(0, 32) /\ atten \in range(0, 4)

set_atten_db(atten, db) ==
    /\ Fresh
    /\ Begin("set_atten_db", <<atten, db>>, set_atten_db_asserts(atten, db),
             set_atten_db_body(atten, db))

\* stellies_set_atten_db(db).
stellies_set_atten_db(db) ==
    /\ Fresh
    /\ Begin("stellies_set_atten_db", <<db>>, db \in range(0, 32),
             stellies_set_atten_db_body(db))

\* set_freq_range_switch(freq_range).
freq_range_asserts_any(freq_range) == TRUE

freq_range_asserts(freq_range) == freq_range \in range(1, 5)

set_freq_range_switch(freq_range) ==
    /\ Fresh
    /\ Begin("set_freq_range_switch", <<freq_range>>,
             freq_range_asserts(freq_range),
             set_freq_range_switch_body(freq_range))

\* stellies_set_freq_range_switch(freq_range).
stellies_set_freq_range_switch(freq_range) ==
    /\ Fresh
    /\ Begin("stellies_set_freq_range_switch", <<freq_range>>,
             freq_range_asserts(freq_range),
             stellies_set_freq_range_switch_body(freq_range))

\* The arguments the operations are called with.
PinArgs == {-1, 0, 3, 4, 7, 8, 11, 13}
SetdPins == {3, 13}
StateArgs == {PyInt(0), PyInt(1), PyInt(2), PyBool(TRUE), PyBool(FALSE)}
PwmArgs == {-1, 0, 128, 254, 255, 256}
SmoothingArgs == {0, 1, 64, 65}
AttenArgs == -1..4
DbArgs == -1..32
RangeArgs == 0..5

\* The levels the pins may have before the operation: all low, all high,
\* and each binary digit of the pin number and its complement.
PriorPins ==
    {[p \in AllPins |-> l] : l \in {0, 1}}
    \cup {[p \in AllPins |-> ShiftAnd1(p, j)] : j \in 0..(PriorBits - 1)}
    \cup {[p \in AllPins |-> 1 - ShiftAnd1(p, j)] : j \in 0..(PriorBits - 1)}

\* ------------------------------------------------------------------ specs
\* The state after __init__ (lines 47-49), with the given caller threads.
InitWith(callers, submits) ==
    /\ nb_request_id = 0
    /\ nb_requests = <<>>
    /\ clock = 0
    /\ pc = [t \in callers |-> "idle"]
    /\ loc = [t \in callers |-> NoLoc]
    /\ ret = [t \in callers |-> NoRet]
    /\ inflight = {}
    /\ disp = IdleDisp
    /\ todo = [t \in callers |-> submits]
    /\ returned = <<>>
    /\ wire = <<>>
    /\ last = [request |-> [name |-> "", arguments |-> <<>>], reply |-> None,
               informs |-> <<>>, out |-> [kind |-> "", name |-> "", val |-> <<>>]]
    /\ prior = pins
    /\ call = NoCall
    /\ shift = <<>>

AllLow == [p \in AllPins |-> 0]
Init == pins = AllLow /\ InitWith({1}, MaxSubmits)
InitMT == pins = AllLow /\ InitWith({1, 2}, MaxSubmitsMT)
InitDev == pins \in PriorPins /\ InitWith({1}, MaxSubmits)

Next ==
    \/ \E t \in Threads, r \in RequestNames : nb_request_L110(t, r)
    \/ \E t \in Threads : nb_pop_oldest_L67(t)
    \/ \E t \in Threads : nb_pop_oldest_L71(t)
    \/ \E t \in Threads : nb_get_next_request_id_L83r(t)
    \/ \E t \in Threads : nb_get_next_request_id_L83w(t)
    \/ \E t \in Threads : nb_request_L115(t)
    \/ \E t \in Threads : nb_add_request_L78(t)
    \/ \E t \in Threads : nb_add_request_L80(t)
    \/ \E t \in Threads, id \in KnownIds : pop_request_by_id(t, id)
    \/ \E t \in Threads, id \in KnownIds : get_request_by_id(t, id)
    \/ \E t \in Threads, id \in KnownIds : get_request_result(t, id)
    \/ \E id \in inflight, r \in RequestNames, st \in ReplyStatus :
          nb_replycb_L90(id, r, st)
    \/ \E id \in inflight, r \in RequestNames : nb_informcb_L98(id, r)
    \/ \E k \in {"reply", "inform"} : nb_cb_L92(k)
    \/ Tick

\* One caller thread and the dispatch thread.
Spec == Init /\ [][Next]_vars

\* The steps of two callers that submit and drain within one reading of the
\* clock, and the replies to their requests.
NextMT ==
    \/ \E t \in Threads, r \in RequestNames : nb_request_L110(t, r)
    \/ \E t \in Threads : nb_pop_oldest_L67(t)
    \/ \E t \in Threads : nb_pop_oldest_L71(t)
    \/ \E t \in Threads : nb_get_next_request_id_L83r(t)
    \/ \E t \in Threads : nb_get_next_request_id_L83w(t)
    \/ \E t \in Threads : nb_request_L115(t)
    \/ \E t \in Threads : nb_add_request_L78(t)
    \/ \E t \in Threads : nb_add_request_L80(t)
    \/ \E t \in Threads, id \in KnownIds : pop_request_by_id(t, id)
    \/ \E id \in inflight, r \in RequestNames : nb_replycb_L90(id, r, "ok")
    \/ nb_cb_L92("reply")

\* Two caller threads and the dispatch thread.
SpecMT == InitMT /\ [][NextMT]_vars

NextDev ==
    \/ \E name \in FacadeNames, a \in FacadeValues : request(name, <<a>>)
    \/ ping
    \/ \E pin \in SetdPins, state \in StateArgs : setd(pin, state)
    \/ \E pin \in PinArgs, val \in PwmArgs : seta(pin, val)
    \/ \E pin \in PinArgs, smoothing \in SmoothingArgs : geta(pin, smoothing)
    \/ \E pin \in PinArgs : getd(pin)
    \/ \E atten \in AttenArgs, db \in DbArgs : set_atten_db(atten, db)
    \/ \E db \in DbArgs : stellies_set_atten_db(db)
    \/ \E r \in RangeArgs : set_freq_range_switch(r)
    \/ \E r \in RangeArgs : stellies_set_freq_range_switch(r)
    \/ setd_L155

\* One device operation, or a few direct requests, on a fresh client whose
\* device pins have any of the prior levels.
SpecDev == InitDev /\ [][NextDev]_vars

\* ------------------------------------------------------------------ claims
\* Helpers of the statements below.
\* The integer a digit string denotes.
RECURSIVE IntOf(_)
IntOf(s) == IF Len(s) = 0 THEN 0
            ELSE 10 * IntOf(SubSeq(s, 1, Len(s) - 1)) + s[Len(s)]
Times(tbl) == {tbl[k].time_tx : k \in Keys(tbl)}
DistinctTimes(tbl) == Cardinality(Times(tbl)) = Cardinality(Keys(tbl))
Oldest(tbl) == {k \in Keys(tbl) : \A j \in Keys(tbl) : tbl[k].time_tx <= tbl[j].time_tx}
LowestId(S) == CHOOSE k \in S : \A j \in S : IntOf(k) <= IntOf(j)
FirstIn(ord, S) == ord[CHOOSE i \in 1..Len(ord) :
                         ord[i] \in S /\ \A j \in 1..(i - 1) : ord[j] \notin S]
Evicting(t) == pc[t] = "L71" /\ pc'[t] = "L83r"
DeliveryOf(id) ==
    \E r \in RequestNames :
        \/ \E st \in ReplyStatus : nb_replycb_L90(id, r, st)
        \/ nb_informcb_L98(id, r)

\* C1: the table never holds more than nb_max_requests entries, whatever the
\* interleaving of the callers' _nb_request calls, pops and deliveries.
C1_TableWithinCapacity ==
    Cardinality(Keys(nb_requests)) <= nb_max_requests

\* C2: two callers submitting concurrently never obtain the same request
\* id: the ids held by calls in progress and the ids returned are pairwise
\* distinct, and no call fails with the duplicate-request error.
C2_NoDuplicateIds ==
    /\ \A t1, t2 \in Threads :
          (t1 # t2 /\ loc[t1].rid # NoId /\ loc[t2].rid # NoId)
              => loc[t1].rid # loc[t2].rid
    /\ \A t \in Threads : \A i \in 1..Len(returned) : loc[t].rid # returned[i]
    /\ \A i, j \in 1..Len(returned) : i # j => returned[i] # returned[j]
    /\ \A t \in Threads : ret[t].kind # "DuplicateRequest"

\* C3: a reply or inform for a request that _nb_request has sent (line 115)
\* and that has not been popped or evicted is never rejected: here, for the
\* request of a call that has sent and not yet returned.
C3_SentRequestNeverRejected ==
    [][\A t \in Threads : \A id \in inflight :
          (pc[t] \in {"L78", "L80"} /\ loc[t].rid = id /\ DeliveryOf(id))
              => disp'.err = ""]_vars

\* C4: a single caller submitting to a full table whose entries have pairwise
\* distinct time_tx goes through the eviction, which removes exactly the
\* entry of the earliest time_tx and leaves the others as they are; the add
\* that follows brings the table back to nb_max_requests entries.
C4_EvictsEarliest ==
    [][\A t \in Threads :
          /\ (pc[t] = "idle" /\ pc'[t] # "idle"
                /\ Cardinality(Keys(nb_requests)) = nb_max_requests)
               => pc'[t] = "L67"
          /\ (Evicting(t) /\ DistinctTimes(nb_requests))
               => /\ Cardinality(Keys(nb_requests)) = nb_max_requests
                  /\ \E k \in Oldest(nb_requests) :
                        /\ Oldest(nb_requests) = {k}
                        /\ Keys(nb_requests') = Keys(nb_requests) \ {k}
                  /\ \A k \in Keys(nb_requests') : nb_requests'[k] = nb_requests[k]
          /\ (pc[t] = "L80" /\ pc'[t] = "idle" /\ loc[t].oldreq # None)
               => /\ loc[t].rid \notin Keys(nb_requests)
                  /\ Keys(nb_requests') = Keys(nb_requests) \cup {loc[t].rid}
                  /\ loc[t].oldreq[1].request_id \notin Keys(nb_requests')
                  /\ Cardinality(Keys(nb_requests')) = nb_max_requests]_vars

\* C4 witness: an eviction has just removed the one earliest entry of a full
\* table with pairwise distinct times.
C4_Witness ==
    \E t \in Threads :
        /\ pc[t] = "L83r"
        /\ loc[t].oldreq # None
        /\ Cardinality(Keys(nb_requests)) = nb_max_requests - 1
        /\ DistinctTimes(nb_requests)
        /\ \A k \in Keys(nb_requests) :
              nb_requests[k].time_tx > loc[t].oldreq[1].time_tx

\* C5: _nb_get_request_result called with an id that is not in the table
\* (evicted or popped) returns a not-found result instead of raising, and
\* leaves the table unchanged.
C5_GetResultAbsentNotFound ==
    [][\A t \in Threads : \A id \in KnownIds :
          (id \notin Keys(nb_requests) /\ get_request_result(t, id))
              => (ret'[t].kind = "ok" /\ nb_requests' = nb_requests)]_vars

C7_IdsStrictlyIncreasing ==
    /\ \A i, j \in 1..Len(returned) :
          i < j => IntOf(returned[i]) < IntOf(returned[j])
    /\ \A t \in Threads : ret[t].kind # "DuplicateRequest"

\* C7 witness: three handles returned, with pops or evictions and a delivered
\* reply in between.
C7_Witness ==
    /\ Len(returned) >= 3
    /\ Cardinality(Keys(nb_requests)) = 1
    /\ \E k \in Keys(nb_requests) : nb_requests[k].reply # None

\* C8: _nb_replycb or _nb_informcb called with an id that is not a key of
\* the table raises and leaves the table as it was (the same ids, the same
\* reply and informs in every entry); so does the second lookup when the
\* entry has gone between the test and the delivery.
C8_UnknownIdRejected ==
    [][/\ \A id \in inflight :
             (id \notin Keys(nb_requests) /\ DeliveryOf(id))
                 => /\ disp'.err = "RuntimeError"
                    /\ disp'.pc = "idle"
                    /\ nb_requests' = nb_requests
       /\ (disp.pc \in {"L92", "L100"} /\ disp'.pc = "idle"
              /\ disp.id \notin Keys(nb_requests))
             => (disp'.err = "KeyError" /\ nb_requests' = nb_requests)]_vars

\* C8 witness: a delivery has been rejected while the table holds an entry
\* with a reply.
C8_Witness ==
    /\ disp.err = "RuntimeError"
    /\ \E k \in Keys(nb_requests) : nb_requests[k].reply # None

\* C9: an id leaves the table only in a pop by id or in the eviction of
\* _nb_request: no delivery and no lookup removes an entry.
C9_OnlyPopOrEvictionRemoves ==
    [][\A id \in Keys(nb_requests) :
          id \notin Keys(nb_requests') =>
              \E t \in Threads :
                  \/ Evicting(t) /\ loc[t].sel = id
                  \/ /\ pc[t] = "idle" /\ pc'[t] = "idle"
                     /\ disp' = disp
                     /\ ret'[t] = Returned("pop_request_by_id", Some(id))]_vars

\* C9 witness: _nb_get_request_result has returned a reply, and an entry
\* with its reply is still in the table.
C9_Witness ==
    /\ \E t \in Threads :
          /\ ret[t].op = "get_request_result"
          /\ ret[t].kind = "ok"
          /\ ret[t].val[1] # None
    /\ \E k \in Keys(nb_requests) : nb_requests[k].reply # None

\* C10: _request returns (reply, informs) exactly when the first argument of
\* the reply is "ok", and raises an error naming the request for any other
\* first argument.
C10_FacadeChecksStatus ==
    last.reply # None =>
        IF last.reply[1].arguments[1] = "ok"
        THEN /\ last.out.kind = "ok"
             /\ last.out.val = <<last.reply[1], last.informs>>
        ELSE /\ last.out.kind = "RuntimeError"
             /\ last.out.name = last.request.name
             /\ last.out.val = <<>>

\* C10 witness: a reply whose status is neither "ok" nor "fail" has made
\* _request raise.
C10_Witness ==
    /\ last.reply # None
    /\ last.reply[1].arguments[1] = "invalid"
    /\ last.out.kind = "RuntimeError"
    /\ last.request.name = "watchdog"

\* C11: ping() returns a boolean for every reply the device gives to the
\* watchdog request: True when the status is ok and False when it is not; the
\* False outcome is returned, not replaced by an exception.
C11_PingReturnsBoolean ==
    (call.op = "ping" /\ last.reply # None) =>
        /\ call.state = "returned"
        /\ call.val = PyBool(last.reply[1].arguments[1] = "ok")

\* C12: getd and geta, called with in-range arguments and answered with an
\* ok reply that carries a value, return that value (the reply's second
\* argument) as an integer after exactly one request.
C12_ReadingReturnsValue ==
    LET inrange == IF call.op = "geta"
                   THEN call.args[1] \in 0..7 /\ call.args[2] \in 1..64
                   ELSE call.args[1] >= 0
    IN  (call.op \in {"geta", "getd"} /\ inrange /\ last.out.kind = "ok") =>
            /\ call.state = "returned"
            /\ call.val = PyInt(IF last.reply[1].arguments[2] = "1" THEN 1 ELSE 0)
            /\ Len(wire) = 1

\* C13: setd with a state among 0, 1, True, False issues exactly one "setd"
\* request whose arguments are the pin and the state as 0 or 1; with any
\* other state it fails and issues no request.
C13_SetdOneRequestOrNone ==
    (call.op = "setd" /\ call.state \in {"returned", "raised"}) =>
        LET pin == call.args[1]
            state == call.args[2]
        IN  IF state \in {PyInt(0), PyInt(1), PyBool(TRUE), PyBool(FALSE)}
            THEN wire = <<[name |-> "setd",
                           arguments |-> <<pin, IF state \in {PyInt(1), PyBool(TRUE)}
                                                THEN 1 ELSE 0>>]>>
            ELSE call.state = "raised" /\ wire = <<>>

\* C13 witness: setd(pin, True) has returned after its one request, which
\* carries 1.
C13_Witness ==
    /\ call.op = "setd"
    /\ call.args[2] = PyBool(TRUE)
    /\ call.state = "returned"
    /\ Len(wire) = 1
    /\ wire[1].arguments[2] = 1

\* The arguments of a call that lie outside the documented ranges.
OutOfRange(c) ==
    IF c.op = "geta" THEN c.args[1] \notin 0..7 \/ c.args[2] \notin 1..64
    ELSE IF c.op = "seta"
    THEN c.args[1] \notin {3, 5, 6, 9, 10, 11} \/ c.args[2] \notin 0..255
    ELSE IF c.op = "set_atten_db"
    THEN c.args[1] \notin 0..3 \/ c.args[2] \notin 0..31
    ELSE IF c.op = "stellies_set_atten_db" THEN c.args[1] \notin 0..31
    ELSE IF c.op \in {"set_freq_range_switch", "stellies_set_freq_range_switch"}
    THEN c.args[1] \notin 1..4
    ELSE FALSE

C15_SetaAcceptsDocumentedRange ==
    call.op = "seta" =>
        LET pin == call.args[1]
            val == call.args[2]
        IN  IF pin \in {3, 5, 6, 9, 10, 11} /\ val \in 0..255
            THEN /\ wire = <<[name |-> "seta", arguments |-> <<pin, val>>]>>
                 /\ call.val # Exc("AssertionError")
            ELSE /\ call.val = Exc("AssertionError")
                 /\ wire = <<>>

\* The pin and the level of the request a step sends, if it sends one.
Sends(pin, level) ==
    /\ Len(wire') = Len(wire) + 1
    /\ wire'[Len(wire')].arguments = <<pin, level>>
Latches == {kat_pins.atten1_le_pin, kat_pins.atten2_le_pin, kat_pins.atten3_le_pin}
LatchOf(atten) == <<kat_pins.atten1_le_pin, kat_pins.atten2_le_pin,
                    kat_pins.atten3_le_pin>>[atten]

\* C16: for every db in 0..31 and every valid attenuator index set_atten_db
\* makes exactly 6 rising edges on the clock pin, the data pin at those edges
\* reads, most significant bit first, the 6-bit binary form of 2*db, and the
\* clock pin is low before the first pulse and after the last.
C16_SixPulsesMsbFirst ==
    (call.op = "set_atten_db" /\ call.state = "returned") =>
        LET db == call.args[2]
            clk == kat_pins.atten_clk_pin
            clkw == {i \in 1..Len(wire) : wire[i].arguments[1] = clk}
            first == CHOOSE i \in clkw : \A j \in clkw : i <= j
        IN  /\ shift = [i \in 1..6 |-> ((2 * db) \div (2 ^ (6 - i))) % 2]
            /\ Cardinality({i \in clkw : wire[i].arguments[2] = 1}) = 6
            /\ wire[first].arguments[2] = 0
            /\ pins[clk] = 0

\* C16 witness: set_atten_db(1, 31) has returned, with a clock pin that was
\* high before, having shifted 1,1,1,1,1,0 in.
C16_Witness ==
    /\ call.op = "set_atten_db"
    /\ call.args = <<1, 31>>
    /\ call.state = "returned"
    /\ prior[kat_pins.atten_clk_pin] = 1
    /\ shift = <<1, 1, 1, 1, 1, 0>>

\* C17: set_atten_db first drives the three latch-enable pins low, they are
\* low at every write of the clock and data pins, a latch pin is driven high
\* only after the sixth pulse has ended, and at the return exactly the latch
\* pin of attenuator 1, 2 or 3 is high, or all three for index 0.
C17_LatchesLowUntilShifted ==
    [][call'.op = "set_atten_db" =>
        /\ \A level \in {0, 1} :
              (\/ Sends(kat_pins.atten_clk_pin, level)
               \/ Sends(kat_pins.atten_data_pin, level)) =>
                 \A le \in Latches : pins[le] = 0 /\ pins'[le] = 0
        /\ \A le \in Latches :
              Sends(le, 1) => /\ Len(shift) = 6
                              /\ pins[kat_pins.atten_clk_pin] = 0
        /\ call'.state = "returned" =>
              LET atten == call'.args[1]
              IN  \A le \in Latches :
                     pins'[le] = IF atten = 0 \/ le = LatchOf(atten)
                                 THEN 1 ELSE 0
    ]_vars

\* C17 witness: set_atten_db(2, db) has returned from pins whose latches were
\* all high: only the latch of attenuator 2 is high.
C17_Witness ==
    /\ call.op = "set_atten_db"
    /\ call.args[1] = 2
    /\ call.state = "returned"
    /\ \A le \in Latches : prior[le] = 1
    /\ pins[kat_pins.atten2_le_pin] = 1
    /\ pins[kat_pins.atten1_le_pin] = 0
    /\ pins[kat_pins.atten3_le_pin] = 0
    /\ Len(shift) = 6

\* The switch pins of a board.
Switch1(p) == {p.switch1_pin1, p.switch1_pin2, p.switch1_pin3, p.switch1_pin4}
Switch2(p) == {p.switch2_pin1, p.switch2_pin2, p.switch2_pin3, p.switch2_pin4}
PinsOf(ws) == {ws[i].pin : i \in DOMAIN ws}

\* C18: for every range 1..4 and every prior pin state, when
\* set_freq_range_switch returns exactly one pin of switch1 and one pin of
\* switch2 are low and the other six are high; all eight were written high
\* before any was cleared; and the cleared pair is that of no other range.
C18_TwoSwitchPinsLow ==
    (call.op = "set_freq_range_switch" /\ call.state = "returned") =>
        LET r == call.args[1]
            S1 == Switch1(kat_pins)
            S2 == Switch2(kat_pins)
            low == {p \in S1 \cup S2 : pins[p] = 0}
            high == {p \in S1 \cup S2 : pins[p] = 1}
            clears == {i \in 1..Len(wire) : wire[i].arguments[2] = 0}
        IN  /\ Cardinality(low \cap S1) = 1
            /\ Cardinality(low \cap S2) = 1
            /\ Cardinality(high) = 6
            /\ \A p \in S1 \cup S2 :
                  \E i \in 1..Len(wire) :
                     /\ wire[i].arguments = <<p, 1>>
                     /\ \A j \in clears : i < j
            /\ \A r2 \in (1..4) \ {r} : low # PinsOf(KatRange(r2))

\* C18 witness: set_freq_range_switch(4) has returned from pins that were all
\* low: switch1_pin1 and switch2_pin4 are low, the others high.
C18_Witness ==
    /\ call.op = "set_freq_range_switch"
    /\ call.args = <<4>>
    /\ call.state = "returned"
    /\ \A p \in AllPins : prior[p] = 0
    /\ pins[kat_pins.switch1_pin1] = 0
    /\ pins[kat_pins.switch2_pin4] = 0
    /\ pins[kat_pins.switch1_pin4] = 1

\* C19: when sending the request fails inside _nb_request, the table is as it
\* was before the call: the call has added no entry and removed none, also
\* when the table was full.
C19_FailedSendLeavesTable ==
    [][\A t \in Threads :
          (pc[t] = "L115" /\ pc'[t] = "idle") =>
             /\ loc[t].oldreq = None
             /\ loc[t].rid \notin Keys(nb_requests')
             /\ nb_requests' = nb_requests
    ]_vars

\* The levels after the statements ws have been carried out on the levels f.
RECURSIVE Carry(_, _)
Carry(f, ws) ==
    IF Len(ws) = 0 THEN f
    ELSE Carry([f EXCEPT ![ws[1].pin] = int(ws[1].state)], Tail(ws))

\* C20: on the second board the levels of the nine switch pins after
\* stellies_set_freq_range_switch(r) are determined by r alone: they are the
\* levels the same call leaves from any other prior levels, such as all low.
C20_SwitchPinsDependOnRangeOnly ==
    (call.op = "stellies_set_freq_range_switch" /\ call.state = "returned") =>
        LET other == Carry(AllLow, call.body)
        IN  \A p \in Switch1(misc_pins) \cup Switch2(misc_pins)
                     \cup {misc_pins.switch3} : pins[p] = other[p]

====
